---- MODULE Spec2Model ----
(***************************************************************************)
(* A model of the platformer in src/main.rs (a Bevy application).          *)
(*                                                                         *)
(* Numbers.  The program computes in f32.  The model computes in exact     *)
(* fractions held as integers: a frame delta is a number of ticks of       *)
(* 1/TicksPerSecond seconds, a velocity a number of 1/U world units per    *)
(* second and a position a number of 1/P world units, with P = U * U, so   *)
(* that  velocity += gravity * delta  is  vy + GRAVITY_FORCE * dt  and     *)
(* position += velocity * delta  is  x + vx * dt, with no division.  A     *)
(* world coordinate c is the model's c * P, a world velocity v is v * U.   *)
(* For deltas that are multiples of 1/4 s the f32 arithmetic of the        *)
(* program is exact as well; for a delta of 1/60 s it rounds, by less than *)
(* 1e-4 world units per frame.                                             *)
(*                                                                         *)
(* Scheduling.  main() adds the eleven Update systems with eleven separate *)
(* add_systems calls and states no ordering between them (no .chain(), no  *)
(* .before()/.after()).  Bevy then runs every system exactly once per      *)
(* frame, in an order it is free to choose, and applies the Commands the   *)
(* systems queued (spawn, despawn) when the schedule has finished.  The    *)
(* model lets any system that has not yet run in this frame run next.      *)
(***************************************************************************)
EXTENDS Integers, Sequences, FiniteSets, TLC

\* ---------------------------------------------------------------- constants

TicksPerSecond == 60
\* Velocity units per world unit per second.
U == TicksPerSecond
\* Position units per world unit.
P == U * U

PLAYER_SIZE_X == 30
PLAYER_SIZE_Y == 30
PLAYER_SPEED == 200
PLAYER_JUMP_VELOCITY == 300
ENEMY_SIZE_X == 30
ENEMY_SIZE_Y == 30
ENEMY_SPEED_MIN == 50
ENEMY_SPEED_MAX == 150
OBSTACLE_SIZE_X == 40
OBSTACLE_SIZE_Y == 40
GROUND_HEIGHT == 20
GRAVITY_FORCE == -500
STOMP_WINDOW == 5
STOMP_SCORE == 100

\* The width of the primary window, in world units.
W == 800

\* ------------------------------------------------------------------- bounds

\* Frames the model runs before it stops.
MaxFrames == 2

\* Frame deltas, in 1/TicksPerSecond seconds.
Dts == {30}

\* --------------------------------------------------------- derived geometry

PlayerHalfX == (PLAYER_SIZE_X * P) \div 2
PlayerHalfY == (PLAYER_SIZE_Y * P) \div 2
EnemyHalfX == (ENEMY_SIZE_X * P) \div 2
EnemyHalfY == (ENEMY_SIZE_Y * P) \div 2
ObstacleHalfX == (OBSTACLE_SIZE_X * P) \div 2
ObstacleHalfY == (OBSTACLE_SIZE_Y * P) \div 2
HalfWidth == (W * P) \div 2

\* GroundData.top_y = center_y + GROUND_HEIGHT / 2 with center_y = 0.
top_y == (GROUND_HEIGHT * P) \div 2

Abs(n) == IF n < 0 THEN -n ELSE n
\* f32::signum: 1.0 for a positive number and for 0.0, -1.0 for a negative one.
Sign(n) == IF n >= 0 THEN 1 ELSE -1

\* --------------------------------------------------------------- the world

VARIABLES
    player,        \* the Player entities: <<>> or <<[x, y, vx, vy, facing]>>
    enemies,       \* the Enemy entities, in query order: [id, x, y, vx, vy]
    obstacles,     \* the Obstacle entities, in query order: [x, y]
    score,         \* Score.0
    scoreChanged,  \* Score changed since update_score_system last ran
    scoreText,     \* the number the HUD shows
    despawnEnemies,\* ids of enemies with a despawn command queued
    despawnPlayer, \* a despawn command for the player is queued
    gameOverBanners, \* "Game Over" texts posted so far
    winBanners,    \* "You Win!" texts posted so far
    exit,          \* an AppExit event was sent
    running,       \* the app's main loop has not ended
    frame,         \* the number of the current frame, counted from 1 in
                   \* the state the run of the model begins in
    dt,            \* Time.delta_seconds of the current frame, in ticks
    keyboard,      \* Input<KeyCode> of the current frame: keys held, keys
                   \* that went down in this frame
    scenario,      \* the name of the starting state the run began from
    ran,           \* the systems that have run in the current frame
    frameStart,    \* the enemies as they were when the current frame began
    eoOverlaps     \* per enemy id: obstacles it overlapped when
                   \* enemy_obstacle_collision_system ran in this frame

vars == <<player, enemies, obstacles, score, scoreChanged, scoreText,
          despawnEnemies, despawnPlayer, gameOverBanners, winBanners, exit,
          running, frame, dt, keyboard, scenario, ran, frameStart, eoOverlaps>>

\* The Update systems in the order main() registers them.
Schedule == <<"player_input_system", "apply_gravity_system", "movement_system",
              "player_wrap_system", "enemy_wrap_system",
              "enemy_obstacle_collision_system", "collision_system",
              "enemy_collision_system", "obstacle_collision_system",
              "update_score_system", "check_end_game_system">>

Systems == {Schedule[i] : i \in 1..Len(Schedule)}

\* The systems the scheduler may start next: main() orders none of them
\* before another, so any system that has not yet run in this frame.
Eligible(done) == Systems \ done

\* ---------------------------------------------------------------- startup

\* setup: the player stands on the ground at x = 0, at rest, facing right.
setup == [x |-> 0, y |-> top_y + PlayerHalfY, vx |-> 0, vy |-> 0, facing |-> 1]

\* spawn_enemies: one enemy at x with horizontal velocity vx, on the ground.
spawn_enemy(id, x, vx) ==
    [id |-> id, x |-> x, y |-> top_y + EnemyHalfY, vx |-> vx, vy |-> 0]

\* spawn_obstacles: one obstacle at x, on the ground.
spawn_obstacle(x) == [x |-> x, y |-> top_y + ObstacleHalfY]

\* The draws of the random host the model starts from: for each enemy its x
\* (world units) and velocity, for each obstacle its x (world units).
Layouts ==
    { [e |-> <<<<20, -50>>, <<-20, 50>>>>,   o |-> <<200, 300, -300>>],
      [e |-> <<<<60, 100>>, <<390, 148>>>>,   o |-> <<-25, 25, 120>>] }

LayoutOK(l) ==
    /\ Len(l.e) \in 2..4
    /\ Len(l.o) \in 3..6
    /\ \A i \in 1..Len(l.e) :
          /\ l.e[i][1] * 2 >= -W /\ l.e[i][1] * 2 < W
          /\ Abs(l.e[i][2]) >= ENEMY_SPEED_MIN /\ Abs(l.e[i][2]) < ENEMY_SPEED_MAX
    /\ \A i \in 1..Len(l.o) : l.o[i] * 2 >= -W /\ l.o[i] * 2 < W

\* Keyboard states of a frame: the keys held and the keys that went down in
\* this frame.
NoKey == [pressed |-> {}, just |-> {}]
SpaceDown == [pressed |-> {"Space"}, just |-> {"Space"}]
SpaceHeld == [pressed |-> {"Space"}, just |-> {}]
RightJumpDown == [pressed |-> {"D", "Key2"}, just |-> {"D", "Key2"}]
RightDown == [pressed |-> {"D"}, just |-> {"D"}]
RightHeld == [pressed |-> {"D"}, just |-> {}]

\* Startups chosen for the cases they bring about, in world units: each
\* enemy <<x, vx>>, each obstacle x, the frame deltas in ticks, the keyboard
\* states of the first frame and those of the later frames.  The player
\* starts where setup puts it.
\*   S4    the enemy and the obstacle of scenario S4 of the specification
\*         (enemy at 100 with vx = +100, obstacle at 120), and a second enemy
\*         standing between two obstacles;
\*   Edge  an obstacle 10 units from the right screen edge, an enemy 5 units
\*         from the left one, and frames long enough for the player to walk
\*         to the edge;
\*   Jump  an obstacle next to the player and the jump key going down, then
\*         going down again or staying held.
Scenarios ==
    { [name |-> "S4", e |-> << <<100, 100>>, <<-300, -50>> >>,
       o |-> <<120, -290, -310>>, dts |-> {1},
       keys |-> {NoKey}, later |-> {NoKey}],
      [name |-> "Edge", e |-> << <<-395, -100>>, <<-200, -50>> >>,
       o |-> <<390, -100, -300>>, dts |-> {118},
       keys |-> {RightDown}, later |-> {RightHeld}],
      [name |-> "Jump", e |-> << <<-300, -50>>, <<300, 50>> >>,
       o |-> <<20, 200, -200>>, dts |-> {30},
       keys |-> {SpaceDown}, later |-> {SpaceDown, SpaceHeld}] }

\* A state in the middle of a run: scenario S2 of the specification (the
\* player at (0, 60) falling at 100 above an enemy at (0, 25)).  The
\* program is in it at the start of its fifth frame after a startup with
\* enemies at -40 and 300, both with vx = +50, and obstacles at -200, -300
\* and -380, when Space goes down in the first frame, the frames last 18,
\* 12, 12 and 6 ticks and the systems run in the order Input, Gravity,
\* Integration, Wrap, Ground-clamp, Enemy-Obstacle, Player-Enemy,
\* Player-Obstacle, Score-HUD, End-check.
S2 ==
    [name |-> "S2", p |-> <<0, 60, 0, -100>>,
     e |-> << <<0, 50>>, <<340, 50>> >>, o |-> <<-200, -300, -380>>,
     dts |-> {1}, keys |-> {NoKey}, later |-> {NoKey}]

\* The keyboard states of a run that began at startup: no key, or a key or
\* two going down in the first frame and up again in the later ones.
Inputs == [keys |-> {NoKey, SpaceDown, RightJumpDown}, later |-> {NoKey}]

\* The frame deltas the host reports in a run that began from sc.
Deltas(sc) ==
    IF sc = "main" THEN Dts
    ELSE IF sc = "S2" THEN S2.dts
    ELSE (CHOOSE s \in Scenarios : s.name = sc).dts

\* The keyboard states the host may report in frame f of a run that began
\* from sc.
Keyboards(sc, f) ==
    LET s == IF sc = "main" THEN Inputs
             ELSE IF sc = "S2" THEN S2
             ELSE CHOOSE r \in Scenarios : r.name = sc
    IN IF f = 1 THEN s.keys ELSE s.later

Init ==
    \E l \in Layouts :
        /\ LayoutOK(l)
        /\ player = <<setup>>
        /\ enemies = [i \in 1..Len(l.e) |-> spawn_enemy(i, l.e[i][1] * P, l.e[i][2] * U)]
        /\ obstacles = [i \in 1..Len(l.o) |-> spawn_obstacle(l.o[i] * P)]
        /\ score = 0
        /\ scoreChanged = TRUE
        /\ scoreText = 0
        /\ despawnEnemies = {}
        /\ despawnPlayer = FALSE
        /\ gameOverBanners = 0
        /\ winBanners = 0
        /\ exit = FALSE
        /\ running = TRUE
        /\ frame = 1
        /\ scenario = "main"
        /\ dt \in Dts
        /\ keyboard \in Keyboards("main", 1)
        /\ ran = {}
        /\ frameStart = enemies
        /\ eoOverlaps = [i \in 1..Len(l.e) |-> 0]

\* A run that begins at one of the startups of Scenarios, or in S2.
InitScenario ==
    \/ \E s \in Scenarios :
          /\ LayoutOK(s)
          /\ scenario = s.name
          /\ player = <<setup>>
          /\ enemies = [i \in 1..Len(s.e) |-> spawn_enemy(i, s.e[i][1] * P, s.e[i][2] * U)]
          /\ obstacles = [i \in 1..Len(s.o) |-> spawn_obstacle(s.o[i] * P)]
          /\ score = 0
          /\ scoreChanged = TRUE
          /\ scoreText = 0
          /\ despawnEnemies = {}
          /\ despawnPlayer = FALSE
          /\ gameOverBanners = 0
          /\ winBanners = 0
          /\ exit = FALSE
          /\ running = TRUE
          /\ frame = 1
          /\ dt \in s.dts
          /\ keyboard \in Keyboards(s.name, 1)
          /\ ran = {}
          /\ frameStart = enemies
          /\ eoOverlaps = [i \in 1..Len(s.e) |-> 0]
    \/ /\ scenario = S2.name
       /\ player = <<[x |-> S2.p[1] * P, y |-> S2.p[2] * P,
                      vx |-> S2.p[3] * U, vy |-> S2.p[4] * U, facing |-> 1]>>
       /\ enemies = [i \in 1..Len(S2.e) |-> spawn_enemy(i, S2.e[i][1] * P, S2.e[i][2] * U)]
       /\ obstacles = [i \in 1..Len(S2.o) |-> spawn_obstacle(S2.o[i] * P)]
       /\ score = 0
       /\ scoreChanged = FALSE
       /\ scoreText = 0
       /\ despawnEnemies = {}
       /\ despawnPlayer = FALSE
       /\ gameOverBanners = 0
       /\ winBanners = 0
       /\ exit = FALSE
       /\ running = TRUE
       /\ frame = 1
       /\ dt \in S2.dts
       /\ keyboard \in Keyboards(S2.name, 1)
       /\ ran = {}
       /\ frameStart = enemies
       /\ eoOverlaps = [i \in 1..Len(S2.e) |-> 0]

\* A system runs when the scheduler may start it.
CanRun(s) ==
    /\ running
    /\ frame <= MaxFrames
    /\ s \notin ran
    /\ s \in Eligible(ran)

\* Every variable the systems of a frame leave to the frame driver.
FrameUnchanged ==
    UNCHANGED <<obstacles, running, frame, dt, keyboard, scenario, frameStart>>

Ran(s) == ran' = ran \cup {s}

\* ------------------------------------------------------------------- input

\* player_input_system jumping on pressed where the code asks just_pressed.
PlayerInput_Held(p, inp) ==
    LET left == IF "Left" \in inp.pressed \/ "A" \in inp.pressed THEN -1 ELSE 0
        right == IF "Right" \in inp.pressed \/ "D" \in inp.pressed THEN 1 ELSE 0
        direction == left + right
        jump == /\ ("Space" \in inp.pressed \/ "Key2" \in inp.pressed)
                /\ p.y <= top_y + PlayerHalfY
    IN [p EXCEPT !.vx = direction * PLAYER_SPEED * U,
                 !.facing = IF direction # 0 THEN Abs(@) * Sign(direction) ELSE @,
                 !.vy = IF jump THEN PLAYER_JUMP_VELOCITY * U ELSE @]

\* player_input_system on one player, under the keyboard state inp.
PlayerInput(p, inp) ==
    LET left == IF "Left" \in inp.pressed \/ "A" \in inp.pressed THEN -1 ELSE 0
        right == IF "Right" \in inp.pressed \/ "D" \in inp.pressed THEN 1 ELSE 0
        direction == left + right
        jump == /\ ("Space" \in inp.just \/ "Key2" \in inp.just)
                /\ p.y <= top_y + PlayerHalfY
    IN [p EXCEPT !.vx = direction * PLAYER_SPEED * U,
                 !.facing = IF direction # 0 THEN Abs(@) * Sign(direction) ELSE @,
                 !.vy = IF jump THEN PLAYER_JUMP_VELOCITY * U ELSE @]

player_input_system ==
    /\ CanRun("player_input_system")
    /\ player' = [i \in 1..Len(player) |-> PlayerInput(player[i], keyboard)]
    /\ Ran("player_input_system")
    /\ FrameUnchanged
    /\ UNCHANGED <<enemies, score, scoreChanged, scoreText, despawnEnemies,
                   despawnPlayer, gameOverBanners, winBanners, exit, eoOverlaps>>

\* -------------------------------------------------------------- kinematics

\* apply_gravity_system on one player: velocity.y += gravity * delta.
ApplyGravity(p, d) == [p EXCEPT !.vy = @ + GRAVITY_FORCE * d]

\* apply_gravity_system without its With<Player> filter: gravity acts on
\* every entity that has a Velocity.
apply_gravity_system_unfiltered ==
    /\ CanRun("apply_gravity_system")
    /\ player' = [i \in 1..Len(player) |-> ApplyGravity(player[i], dt)]
    /\ enemies' = [i \in 1..Len(enemies) |-> ApplyGravity(enemies[i], dt)]
    /\ Ran("apply_gravity_system")
    /\ FrameUnchanged
    /\ UNCHANGED <<score, scoreChanged, scoreText, despawnEnemies,
                   despawnPlayer, gameOverBanners, winBanners, exit, eoOverlaps>>

apply_gravity_system ==
    /\ CanRun("apply_gravity_system")
    /\ player' = [i \in 1..Len(player) |-> ApplyGravity(player[i], dt)]
    /\ Ran("apply_gravity_system")
    /\ FrameUnchanged
    /\ UNCHANGED <<enemies, score, scoreChanged, scoreText, despawnEnemies,
                   despawnPlayer, gameOverBanners, winBanners, exit, eoOverlaps>>

\* movement_system on one entity that has a Velocity:
\* translation += velocity * delta.
Move(t, d) == [t EXCEPT !.x = @ + t.vx * d, !.y = @ + t.vy * d]

movement_system ==
    /\ CanRun("movement_system")
    /\ player' = [i \in 1..Len(player) |-> Move(player[i], dt)]
    /\ enemies' = [i \in 1..Len(enemies) |-> Move(enemies[i], dt)]
    /\ Ran("movement_system")
    /\ FrameUnchanged
    /\ UNCHANGED <<score, scoreChanged, scoreText, despawnEnemies,
                   despawnPlayer, gameOverBanners, winBanners, exit, eoOverlaps>>

\* -------------------------------------------------------------------- wrap

\* The wrap as a translation by the screen width.
Wrap_Translate(t) ==
    IF t.x > HalfWidth THEN [t EXCEPT !.x = @ - 2 * HalfWidth]
    ELSE IF t.x < -HalfWidth THEN [t EXCEPT !.x = @ + 2 * HalfWidth]
    ELSE t

\* The wrap as a reflection about the screen centre.
Wrap_Reflect(t) ==
    IF t.x > HalfWidth THEN [t EXCEPT !.x = -@]
    ELSE IF t.x < -HalfWidth THEN [t EXCEPT !.x = -@]
    ELSE t

\* The body of player_wrap_system and of enemy_wrap_system on one entity.
Wrap(t) ==
    IF t.x > HalfWidth THEN [t EXCEPT !.x = -HalfWidth]
    ELSE IF t.x < -HalfWidth THEN [t EXCEPT !.x = HalfWidth]
    ELSE t

player_wrap_system ==
    /\ CanRun("player_wrap_system")
    /\ player' = [i \in 1..Len(player) |-> Wrap(player[i])]
    /\ Ran("player_wrap_system")
    /\ FrameUnchanged
    /\ UNCHANGED <<enemies, score, scoreChanged, scoreText, despawnEnemies,
                   despawnPlayer, gameOverBanners, winBanners, exit, eoOverlaps>>

enemy_wrap_system ==
    /\ CanRun("enemy_wrap_system")
    /\ enemies' = [i \in 1..Len(enemies) |-> Wrap(enemies[i])]
    /\ Ran("enemy_wrap_system")
    /\ FrameUnchanged
    /\ UNCHANGED <<player, score, scoreChanged, scoreText, despawnEnemies,
                   despawnPlayer, gameOverBanners, winBanners, exit, eoOverlaps>>

\* --------------------------------------------------------------- collision

\* is_colliding given the boxes' full sizes where it expects half-extents.
is_colliding_FullSize(ax, ay, hax, hay, bx, by, hbx, hby) ==
    /\ ax - 2 * hax < bx + 2 * hbx
    /\ ax + 2 * hax > bx - 2 * hbx
    /\ ay - 2 * hay < by + 2 * hby
    /\ ay + 2 * hay > by - 2 * hby

\* is_colliding: strict overlap of two axis-aligned boxes.
is_colliding(ax, ay, hax, hay, bx, by, hbx, hby) ==
    /\ ax - hax < bx + hbx
    /\ ax + hax > bx - hbx
    /\ ay - hay < by + hby
    /\ ay + hay > by - hby

\* collision_system on one player: the ground clamp.
GroundClamp(p) ==
    IF p.y - PlayerHalfY < top_y
    THEN [p EXCEPT !.y = top_y + PlayerHalfY, !.vy = IF @ < 0 THEN 0 ELSE @]
    ELSE p

collision_system ==
    /\ CanRun("collision_system")
    /\ player' = [i \in 1..Len(player) |-> GroundClamp(player[i])]
    /\ Ran("collision_system")
    /\ FrameUnchanged
    /\ UNCHANGED <<enemies, score, scoreChanged, scoreText, despawnEnemies,
                   despawnPlayer, gameOverBanners, winBanners, exit, eoOverlaps>>

\* The obstacles, by index, that the box of enemy e strictly overlaps (the
\* test enemy_obstacle_collision_system writes out inline).
EnemyOverlaps(e, obs) ==
    {j \in 1..Len(obs) :
        /\ e.x - EnemyHalfX < obs[j].x + ObstacleHalfX
        /\ e.x + EnemyHalfX > obs[j].x - ObstacleHalfX
        /\ e.y - EnemyHalfY < obs[j].y + ObstacleHalfY
        /\ e.y + EnemyHalfY > obs[j].y - ObstacleHalfY}

\* The inner loop with the test inverted: velocity.x is inverted for every
\* obstacle the enemy does not overlap.
RECURSIVE EnemyObstacleLoop_Inverted(_, _, _)
EnemyObstacleLoop_Inverted(e, obs, j) ==
    IF j > Len(obs) THEN e
    ELSE EnemyObstacleLoop_Inverted(
             IF j \notin EnemyOverlaps(e, obs) THEN [e EXCEPT !.vx = -@] ELSE e,
             obs, j + 1)

\* The inner loop leaving at the first overlap: one inversion at most.
RECURSIVE EnemyObstacleLoop_Once(_, _, _)
EnemyObstacleLoop_Once(e, obs, j) ==
    IF j > Len(obs) THEN e
    ELSE IF j \in EnemyOverlaps(e, obs) THEN [e EXCEPT !.vx = -@]
    ELSE EnemyObstacleLoop_Once(e, obs, j + 1)

\* The inner loop stopping the enemy at an obstacle.
RECURSIVE EnemyObstacleLoop_Stop(_, _, _)
EnemyObstacleLoop_Stop(e, obs, j) ==
    IF j > Len(obs) THEN e
    ELSE EnemyObstacleLoop_Stop(
             IF j \in EnemyOverlaps(e, obs) THEN [e EXCEPT !.vx = 0] ELSE e,
             obs, j + 1)

\* The inner loop of enemy_obstacle_collision_system for one enemy: the
\* obstacles obs[j..] in turn, each overlap inverting velocity.x.
RECURSIVE EnemyObstacleLoop(_, _, _)
EnemyObstacleLoop(e, obs, j) ==
    IF j > Len(obs) THEN e
    ELSE EnemyObstacleLoop(
             IF j \in EnemyOverlaps(e, obs) THEN [e EXCEPT !.vx = -@] ELSE e,
             obs, j + 1)

EnemyObstacle(e, obs) == EnemyObstacleLoop(e, obs, 1)

enemy_obstacle_collision_system ==
    /\ CanRun("enemy_obstacle_collision_system")
    /\ enemies' = [i \in 1..Len(enemies) |-> EnemyObstacle(enemies[i], obstacles)]
    /\ eoOverlaps' = [id \in DOMAIN eoOverlaps |->
           IF \E i \in 1..Len(enemies) : enemies[i].id = id
           THEN LET i == CHOOSE k \in 1..Len(enemies) : enemies[k].id = id
                IN Cardinality(EnemyOverlaps(enemies[i], obstacles))
           ELSE 0]
    /\ Ran("enemy_obstacle_collision_system")
    /\ FrameUnchanged
    /\ UNCHANGED <<player, score, scoreChanged, scoreText, despawnEnemies,
                   despawnPlayer, gameOverBanners, winBanners, exit>>

\* The stomp test with > for >=: a tie is no stomp.
IsStomp_Strict(p, e) == p.y - PlayerHalfY > e.y + EnemyHalfY - STOMP_WINDOW * P

\* The stomp test of enemy_collision_system: the player's bottom edge is at
\* or above the enemy's top edge less the stomp window.
IsStomp(p, e) == p.y - PlayerHalfY >= e.y + EnemyHalfY - STOMP_WINDOW * P

\* The player's box against an enemy's, as enemy_collision_system calls
\* is_colliding: both half-extents are Vec2::splat(half.x).
PlayerHitsEnemy(p, e) ==
    is_colliding(p.x, p.y, PlayerHalfX, PlayerHalfX, e.x, e.y, EnemyHalfX, EnemyHalfX)

\* The inner loop crediting a stomp with 50 for 100.
RECURSIVE EnemyCollisionLoop_Half(_, _, _, _)
EnemyCollisionLoop_Half(p, es, i, acc) ==
    IF i > Len(es) THEN acc
    ELSE LET e == es[i]
             next ==
                 IF ~PlayerHitsEnemy(p, e) THEN acc
                 ELSE IF IsStomp(p, e)
                 THEN [acc EXCEPT !.despawnEnemies = @ \cup {e.id},
                                  !.score = @ + STOMP_SCORE \div 2,
                                  !.scoreChanged = TRUE]
                 ELSE [acc EXCEPT !.gameOverBanners = @ + 1,
                                  !.despawnPlayer = TRUE]
         IN EnemyCollisionLoop_Half(p, es, i + 1, next)

\* The inner loop with a side hit destroying the enemy along with the player.
RECURSIVE EnemyCollisionLoop_BothDie(_, _, _, _)
EnemyCollisionLoop_BothDie(p, es, i, acc) ==
    IF i > Len(es) THEN acc
    ELSE LET e == es[i]
             next ==
                 IF ~PlayerHitsEnemy(p, e) THEN acc
                 ELSE IF IsStomp(p, e)
                 THEN [acc EXCEPT !.despawnEnemies = @ \cup {e.id},
                                  !.score = @ + STOMP_SCORE,
                                  !.scoreChanged = TRUE]
                 ELSE [acc EXCEPT !.despawnEnemies = @ \cup {e.id},
                                  !.gameOverBanners = @ + 1,
                                  !.despawnPlayer = TRUE]
         IN EnemyCollisionLoop_BothDie(p, es, i + 1, next)

\* The inner loop crediting a stomp without despawning the enemy.
RECURSIVE EnemyCollisionLoop_NoDespawn(_, _, _, _)
EnemyCollisionLoop_NoDespawn(p, es, i, acc) ==
    IF i > Len(es) THEN acc
    ELSE LET e == es[i]
             next ==
                 IF ~PlayerHitsEnemy(p, e) THEN acc
                 ELSE IF IsStomp(p, e)
                 THEN [acc EXCEPT !.score = @ + STOMP_SCORE,
                                  !.scoreChanged = TRUE]
                 ELSE [acc EXCEPT !.gameOverBanners = @ + 1,
                                  !.despawnPlayer = TRUE]
         IN EnemyCollisionLoop_NoDespawn(p, es, i + 1, next)

\* The inner loop of enemy_collision_system for one player: the enemies
\* es[i..] in turn.  acc collects the score, the despawn commands and the
\* banners.
RECURSIVE EnemyCollisionLoop(_, _, _, _)
EnemyCollisionLoop(p, es, i, acc) ==
    IF i > Len(es) THEN acc
    ELSE LET e == es[i]
             next ==
                 IF ~PlayerHitsEnemy(p, e) THEN acc
                 ELSE IF IsStomp(p, e)
                 THEN [acc EXCEPT !.despawnEnemies = @ \cup {e.id},
                                  !.score = @ + STOMP_SCORE,
                                  !.scoreChanged = TRUE]
                 ELSE [acc EXCEPT !.gameOverBanners = @ + 1,
                                  !.despawnPlayer = TRUE]
         IN EnemyCollisionLoop(p, es, i + 1, next)

\* enemy_collision_system on the players ps (none or one) and the enemies es.
RECURSIVE EnemyCollision(_, _, _, _)
EnemyCollision(ps, es, k, acc) ==
    IF k > Len(ps) THEN acc
    ELSE EnemyCollision(ps, es, k + 1, EnemyCollisionLoop(ps[k], es, 1, acc))

enemy_collision_system ==
    /\ CanRun("enemy_collision_system")
    /\ LET acc == EnemyCollision(player, enemies, 1,
                      [score |-> score, scoreChanged |-> scoreChanged,
                       despawnEnemies |-> despawnEnemies,
                       despawnPlayer |-> despawnPlayer,
                       gameOverBanners |-> gameOverBanners])
       IN /\ score' = acc.score
          /\ scoreChanged' = acc.scoreChanged
          /\ despawnEnemies' = acc.despawnEnemies
          /\ despawnPlayer' = acc.despawnPlayer
          /\ gameOverBanners' = acc.gameOverBanners
    /\ Ran("enemy_collision_system")
    /\ FrameUnchanged
    /\ UNCHANGED <<player, enemies, scoreText, winBanners, exit, eoOverlaps>>

\* The player's box against an obstacle's, as obstacle_collision_system
\* calls is_colliding.
PlayerHitsObstacle(p, o) ==
    is_colliding(p.x, p.y, PlayerHalfX, PlayerHalfY, o.x, o.y, ObstacleHalfX, ObstacleHalfY)

\* The body of obstacle_collision_system's inner loop for one obstacle.
ObstaclePush(p, o) ==
    IF PlayerHitsObstacle(p, o)
    THEN [p EXCEPT !.x = IF p.x < o.x THEN o.x - ObstacleHalfX - PlayerHalfX
                         ELSE o.x + ObstacleHalfX + PlayerHalfX,
                   !.vx = 0,
                   !.y = IF p.y > o.y THEN o.y + ObstacleHalfY + PlayerHalfY ELSE @]
    ELSE p

\* The inner loop of obstacle_collision_system: the snapshot obs[j..] in turn.
RECURSIVE ObstacleCollisionLoop(_, _, _)
ObstacleCollisionLoop(p, obs, j) ==
    IF j > Len(obs) THEN p
    ELSE ObstacleCollisionLoop(ObstaclePush(p, obs[j]), obs, j + 1)

ObstacleCollision(p, obs) == ObstacleCollisionLoop(p, obs, 1)

\* obstacle_collision_system made fatal: a player that touches an obstacle
\* is pushed out and also despawned.
obstacle_collision_system_fatal ==
    /\ CanRun("obstacle_collision_system")
    /\ player' = [i \in 1..Len(player) |-> ObstacleCollision(player[i], obstacles)]
    /\ despawnPlayer' =
           (despawnPlayer \/ \E i \in 1..Len(player), j \in 1..Len(obstacles) :
                                PlayerHitsObstacle(player[i], obstacles[j]))
    /\ Ran("obstacle_collision_system")
    /\ FrameUnchanged
    /\ UNCHANGED <<enemies, score, scoreChanged, scoreText, despawnEnemies,
                   gameOverBanners, winBanners, exit, eoOverlaps>>

obstacle_collision_system ==
    /\ CanRun("obstacle_collision_system")
    /\ player' = [i \in 1..Len(player) |-> ObstacleCollision(player[i], obstacles)]
    /\ Ran("obstacle_collision_system")
    /\ FrameUnchanged
    /\ UNCHANGED <<enemies, score, scoreChanged, scoreText, despawnEnemies,
                   despawnPlayer, gameOverBanners, winBanners, exit, eoOverlaps>>

\* ------------------------------------------------------------ score and end

update_score_system ==
    /\ CanRun("update_score_system")
    /\ scoreText' = IF scoreChanged THEN score ELSE scoreText
    /\ scoreChanged' = FALSE
    /\ Ran("update_score_system")
    /\ FrameUnchanged
    /\ UNCHANGED <<player, enemies, score, despawnEnemies, despawnPlayer,
                   gameOverBanners, winBanners, exit, eoOverlaps>>

\* check_end_game_system with the emptiness test off by one: an enemy left.
CheckEndGame_OffByOne(es, ps) ==
    IF Len(es) <= 1 THEN [win |-> 1, gameOver |-> 0, exit |-> TRUE]
    ELSE IF Len(ps) = 0 THEN [win |-> 0, gameOver |-> 1, exit |-> TRUE]
    ELSE [win |-> 0, gameOver |-> 0, exit |-> FALSE]

\* check_end_game_system without the branch for the empty enemy query.
CheckEndGame_LostOnly(es, ps) ==
    IF Len(ps) = 0 THEN [win |-> 0, gameOver |-> 1, exit |-> TRUE]
    ELSE [win |-> 0, gameOver |-> 0, exit |-> FALSE]

\* check_end_game_system on the entities es and ps the two queries see: what
\* it posts and whether it sends AppExit.
CheckEndGame(es, ps) ==
    IF Len(es) = 0 THEN [win |-> 1, gameOver |-> 0, exit |-> TRUE]
    ELSE IF Len(ps) = 0 THEN [win |-> 0, gameOver |-> 1, exit |-> TRUE]
    ELSE [win |-> 0, gameOver |-> 0, exit |-> FALSE]

check_end_game_system ==
    /\ CanRun("check_end_game_system")
    /\ LET r == CheckEndGame(enemies, player)
       IN /\ winBanners' = winBanners + r.win
          /\ gameOverBanners' = gameOverBanners + r.gameOver
          /\ exit' = (exit \/ r.exit)
    /\ Ran("check_end_game_system")
    /\ FrameUnchanged
    /\ UNCHANGED <<player, enemies, score, scoreChanged, scoreText,
                   despawnEnemies, despawnPlayer, eoOverlaps>>

\* ------------------------------------------------------------ frame driver

\* The end of the Update schedule with a runner that ignores AppExit.
EndFrame_KeepsRunning ==
    /\ running
    /\ frame <= MaxFrames
    /\ ran = Systems
    /\ enemies' = SelectSeq(enemies, LAMBDA e : e.id \notin despawnEnemies)
    /\ player' = IF despawnPlayer THEN <<>> ELSE player
    /\ despawnEnemies' = {}
    /\ despawnPlayer' = FALSE
    /\ running' = TRUE
    /\ frame' = frame + 1
    /\ IF frame = MaxFrames
       THEN UNCHANGED <<dt, keyboard>>
       ELSE dt' \in Deltas(scenario) /\ keyboard' \in Keyboards(scenario, frame + 1)
    /\ ran' = {}
    /\ frameStart' = enemies'
    /\ eoOverlaps' = [id \in DOMAIN eoOverlaps |-> 0]
    /\ UNCHANGED <<obstacles, score, scoreChanged, scoreText, gameOverBanners,
                   winBanners, exit, scenario>>

\* The end of the Update schedule: the queued despawn commands are applied,
\* the runner leaves the loop if AppExit was sent, and otherwise the next
\* frame begins with the delta the host reports.
EndFrame ==
    /\ running
    /\ frame <= MaxFrames
    /\ ran = Systems
    /\ enemies' = SelectSeq(enemies, LAMBDA e : e.id \notin despawnEnemies)
    /\ player' = IF despawnPlayer THEN <<>> ELSE player
    /\ despawnEnemies' = {}
    /\ despawnPlayer' = FALSE
    /\ running' = ~exit
    /\ frame' = frame + 1
    /\ IF exit \/ frame = MaxFrames
       THEN UNCHANGED <<dt, keyboard>>
       ELSE dt' \in Deltas(scenario) /\ keyboard' \in Keyboards(scenario, frame + 1)
    /\ ran' = {}
    /\ frameStart' = enemies'
    /\ eoOverlaps' = [id \in DOMAIN eoOverlaps |-> 0]
    /\ UNCHANGED <<obstacles, score, scoreChanged, scoreText, gameOverBanners,
                   winBanners, exit, scenario>>

Next ==
    \/ player_input_system
    \/ apply_gravity_system
    \/ movement_system
    \/ player_wrap_system
    \/ enemy_wrap_system
    \/ enemy_obstacle_collision_system
    \/ collision_system
    \/ enemy_collision_system
    \/ obstacle_collision_system
    \/ update_score_system
    \/ check_end_game_system
    \/ EndFrame

Spec == Init /\ [][Next]_vars

\* The same program started from the scenarios.
SpecScenario == InitScenario /\ [][Next]_vars

\* ------------------------------------------------------------------ claims

\* System s runs in the step from the current state to the next.
Runs(s) == s \notin ran /\ s \in ran'

\* The frame is over: every system has run, the commands are not yet applied.
FrameEnd == running /\ ran = Systems

\* The stages of a frame in the order the specification fixes.
StageOrder ==
    << {"player_input_system"}, {"apply_gravity_system"}, {"movement_system"},
       {"player_wrap_system", "enemy_wrap_system"}, {"collision_system"},
       {"enemy_obstacle_collision_system"}, {"enemy_collision_system"},
       {"obstacle_collision_system"}, {"update_score_system"},
       {"check_end_game_system"} >>

StageOf(s) == CHOOSE k \in 1..Len(StageOrder) : s \in StageOrder[k]

\* C1: in every frame the stages run in the one total order Input, Gravity,
\* Integration, Wrap, Ground-clamp, Enemy-Obstacle, Player-Enemy,
\* Player-Obstacle, Score-HUD, End-check: when a system runs, every system
\* that has run in the frame belongs to its stage or an earlier one, and
\* every system still to run belongs to its stage or a later one.
C1_FixedStageOrder ==
    [][\A s \in Systems :
          Runs(s) =>
              /\ \A t \in ran : StageOf(t) <= StageOf(s)
              /\ \A t \in Systems \ ran' : StageOf(t) >= StageOf(s)]_vars

\* C2: each time the end-check runs: with no enemy it posts "You Win!" and
\* requests termination; otherwise with no player it posts "Game Over" and
\* requests termination; otherwise it posts nothing and requests nothing.
\* Termination is requested only with no enemy or no player.
C2_EndCheck ==
    /\ [][Runs("check_end_game_system") =>
             IF enemies = <<>>
             THEN /\ winBanners' = winBanners + 1
                  /\ gameOverBanners' = gameOverBanners
                  /\ exit'
             ELSE IF player = <<>>
             THEN /\ winBanners' = winBanners
                  /\ gameOverBanners' = gameOverBanners + 1
                  /\ exit'
             ELSE /\ winBanners' = winBanners
                  /\ gameOverBanners' = gameOverBanners
                  /\ exit' = exit]_vars
    /\ [](exit => (enemies = <<>> \/ player = <<>>))

\* The end-check has requested termination with "You Win!".
C2_Witness ==
    /\ "check_end_game_system" \in ran
    /\ exit
    /\ winBanners = 1
    /\ enemies = <<>>
    /\ player # <<>>

\* The boxes of player p and enemy e overlap strictly on both axes.
Overlap(p, e) ==
    /\ Abs(p.x - e.x) < PlayerHalfX + EnemyHalfX
    /\ Abs(p.y - e.y) < PlayerHalfY + EnemyHalfY

\* The ids of the enemies that overlap player p and that p is above: p's
\* bottom edge is at or above the enemy's top edge less 5 units.
StompedBy(p) ==
    {enemies[i].id : i \in {k \in 1..Len(enemies) :
        /\ Overlap(p, enemies[k])
        /\ p.y - PlayerHalfY >= enemies[k].y + EnemyHalfY - 5 * P}}

\* The ids of the enemies that overlap player p from the side.
FatalTo(p) ==
    {enemies[i].id : i \in {k \in 1..Len(enemies) :
        /\ Overlap(p, enemies[k])
        /\ p.y - PlayerHalfY < enemies[k].y + EnemyHalfY - 5 * P}}

\* C3: the Player-Enemy stage destroys exactly the overlapping enemies the
\* player is above (a tie being a stomp) and adds 100 to the score for each;
\* for each other overlapping enemy it marks the player for destruction and
\* posts a Game-Over banner; an enemy that does not overlap is neither
\* destroyed nor fatal.
C3_PlayerEnemy ==
    [][Runs("enemy_collision_system") =>
          IF player = <<>>
          THEN UNCHANGED <<score, despawnEnemies, despawnPlayer, gameOverBanners>>
          ELSE LET p == player[1]
               IN /\ despawnEnemies' = despawnEnemies \cup StompedBy(p)
                  /\ score' = score + 100 * Cardinality(StompedBy(p))
                  /\ despawnPlayer' = (despawnPlayer \/ FatalTo(p) # {})
                  /\ gameOverBanners' = gameOverBanners + Cardinality(FatalTo(p))
                  /\ UNCHANGED <<player, enemies>>]_vars

\* The Player-Enemy stage has destroyed an enemy on a tie: the player's
\* bottom edge exactly 5 units below the enemy's top edge.
C3_Witness ==
    /\ "enemy_collision_system" \in ran
    /\ player # <<>>
    /\ \E i \in 1..Len(enemies) :
          /\ enemies[i].id \in despawnEnemies
          /\ Overlap(player[1], enemies[i])
          /\ player[1].y - PlayerHalfY = enemies[i].y + EnemyHalfY - 5 * P
    /\ score >= 100

\* C4: at the end of every frame in which the player exists, the player's
\* bottom edge is not below the ground top.
C4_PlayerAboveGround ==
    (FrameEnd /\ player # <<>>) => player[1].y - PlayerHalfY >= top_y

\* C5: the score starts at 0, never decreases, and is a multiple of 100 in
\* every reachable state.
C5_Score ==
    /\ score = 0
    /\ [][score' >= score]_vars
    /\ [](score % 100 = 0)

\* Two enemies have been stomped and credited.
C5_Witness == score = 200 /\ enemies = <<>> /\ frame = 2

\* The enemy of frameStart that has the id of enemy e.
AtFrameStart(e) ==
    frameStart[CHOOSE k \in 1..Len(frameStart) : frameStart[k].id = e.id]

\* C6 as stated: an enemy whose box overlaps no obstacle at the start of a
\* frame has, at the end of that frame, a vx of the sign it had at the start.
C6_SignKeptFromFrameStart ==
    FrameEnd =>
        \A i \in 1..Len(enemies) :
            EnemyOverlaps(AtFrameStart(enemies[i]), obstacles) = {}
                => Sign(enemies[i].vx) = Sign(AtFrameStart(enemies[i]).vx)

\* C6 as amended: an enemy whose box overlaps no obstacle when the
\* Enemy-Obstacle stage runs in a frame has, at the end of that frame, a vx
\* of the sign it had at the start of the frame.
C6_SignKeptWithoutOverlap ==
    FrameEnd =>
        \A i \in 1..Len(enemies) :
            eoOverlaps[enemies[i].id] = 0
                => Sign(enemies[i].vx) = Sign(AtFrameStart(enemies[i]).vx)

\* A frame has ended in which an enemy moved, overlapped no obstacle when the
\* Enemy-Obstacle stage ran, and another enemy overlapped one.
C6_Witness ==
    /\ FrameEnd
    /\ \E i \in 1..Len(enemies) :
          /\ eoOverlaps[enemies[i].id] = 0
          /\ enemies[i].x # AtFrameStart(enemies[i]).x
    /\ \E i \in 1..Len(enemies) : eoOverlaps[enemies[i].id] > 0

\* C7: after the Player-Obstacle stage the player's box strictly overlaps
\* none of the obstacles.
C7_NoOverlapAfterResolution ==
    [][Runs("obstacle_collision_system") =>
          \A i \in 1..Len(player'), j \in 1..Len(obstacles) :
              ~( /\ Abs(player'[i].x - obstacles[j].x) < PlayerHalfX + ObstacleHalfX
                 /\ Abs(player'[i].y - obstacles[j].y) < PlayerHalfY + ObstacleHalfY )]_vars

\* Player p touches obstacle o from the side: the boxes overlap and p is not
\* above o's centre.
SideContact(p, o) ==
    /\ Abs(p.x - o.x) < PlayerHalfX + ObstacleHalfX
    /\ Abs(p.y - o.y) < PlayerHalfY + ObstacleHalfY
    /\ p.y <= o.y

\* C8 as stated: when the Player-Obstacle stage runs with the player's box
\* overlapping an obstacle from the side, the player is destroyed.
C8_ObstacleContactFatal ==
    [][(/\ Runs("obstacle_collision_system")
        /\ \E i \in 1..Len(player), j \in 1..Len(obstacles) :
              SideContact(player[i], obstacles[j]))
          => despawnPlayer']_vars

\* C8 as amended: the Player-Obstacle stage destroys no player, posts no
\* banner and requests no termination; on side contact it leaves the player
\* with vx = 0, flush against the edge of an obstacle, at its height.
C8_ObstacleContactPushes ==
    [][Runs("obstacle_collision_system") =>
          /\ UNCHANGED <<despawnPlayer, despawnEnemies, gameOverBanners,
                         winBanners, exit, score>>
          /\ Len(player') = Len(player)
          /\ \A i \in 1..Len(player) :
                (\E j \in 1..Len(obstacles) : SideContact(player[i], obstacles[j]))
                    => /\ player'[i].vx = 0
                       /\ player'[i].y = player[i].y
                       /\ \E j \in 1..Len(obstacles) :
                             Abs(player'[i].x - obstacles[j].x)
                                 = PlayerHalfX + ObstacleHalfX]_vars

\* The Player-Obstacle stage has run on a player in side contact: the player
\* stands on the ground flush against an obstacle, alive and unmarked.
C8_Witness ==
    /\ "obstacle_collision_system" \in ran
    /\ "movement_system" \in ran
    /\ player # <<>>
    /\ ~despawnPlayer
    /\ player[1].vx = 0
    /\ player[1].y = top_y + PlayerHalfY
    /\ \E j \in 1..Len(obstacles) :
          Abs(player[1].x - obstacles[j].x) = PlayerHalfX + ObstacleHalfX

\* The orders in which a query may yield the entities of s.
Orders(s) ==
    {[i \in 1..Len(s) |-> s[f[i]]] : f \in Permutations(1..Len(s))}

\* What the Player-Enemy stage queues and scores from the current state with
\* the enemies taken in the order es.
PlayerEnemyOutcome(es) ==
    EnemyCollision(player, es, 1,
        [score |-> score, scoreChanged |-> scoreChanged,
         despawnEnemies |-> despawnEnemies, despawnPlayer |-> despawnPlayer,
         gameOverBanners |-> gameOverBanners])

\* C9: from the same world state the Enemy-Obstacle, Player-Enemy and
\* Player-Obstacle stages give the same result for every order in which they
\* iterate their enemies or obstacles.
C9_IterationOrderIrrelevant ==
    /\ \A os \in Orders(obstacles) : \A i \in 1..Len(enemies) :
          EnemyObstacle(enemies[i], os) = EnemyObstacle(enemies[i], obstacles)
    /\ \A es \in Orders(enemies) :
          PlayerEnemyOutcome(es) = PlayerEnemyOutcome(enemies)
    /\ \A os \in Orders(obstacles) : \A i \in 1..Len(player) :
          ObstacleCollision(player[i], os) = ObstacleCollision(player[i], obstacles)

\* C10: every live enemy has y = top_y + ENEMY_SIZE.y/2 and vy = 0 in every
\* reachable state.
C10_EnemiesOnGround ==
    \A i \in 1..Len(enemies) :
        /\ enemies[i].y = top_y + (ENEMY_SIZE_Y * P) \div 2
        /\ enemies[i].vy = 0

\* The second frame has ended, gravity and integration have acted with a
\* delta above 0, and an enemy is left of where it began the frame.
C10_Witness ==
    /\ FrameEnd
    /\ frame = 2
    /\ dt > 0
    /\ enemies # <<>>
    /\ \E i \in 1..Len(enemies) : enemies[i].x < AtFrameStart(enemies[i]).x

\* C11: the wrap stage leaves the player with |x| <= W/2: it maps an x above
\* W/2 to exactly -W/2 and an x below -W/2 to exactly W/2, and it leaves y
\* and the velocity as they were.
C11_PlayerWrap ==
    [][Runs("player_wrap_system") =>
          /\ Len(player') = Len(player)
          /\ \A i \in 1..Len(player) :
                /\ 2 * Abs(player'[i].x) <= W * P
                /\ 2 * player[i].x > W * P => 2 * player'[i].x = -(W * P)
                /\ 2 * player[i].x < -(W * P) => 2 * player'[i].x = W * P
                /\ player'[i].y = player[i].y
                /\ player'[i].vx = player[i].vx
                /\ player'[i].vy = player[i].vy]_vars

\* The wrap stage has moved to -W/2 a player that the Player-Obstacle stage
\* of the frame before had pushed beyond the right screen edge.
C11_Witness ==
    /\ scenario = "Edge"
    /\ frame = 2
    /\ "player_wrap_system" \in ran
    /\ "movement_system" \notin ran
    /\ player # <<>>
    /\ 2 * player[1].x = -(W * P)

\* C15: the wrap stage is idempotent: on the player and on every enemy a
\* second application changes nothing the first has not changed.
C15_WrapIdempotent ==
    /\ \A i \in 1..Len(player) : Wrap(Wrap(player[i])) = Wrap(player[i])
    /\ \A i \in 1..Len(enemies) : Wrap(Wrap(enemies[i])) = Wrap(enemies[i])

\* The wrap stage is about to run on a player beyond the right screen edge.
C15_Witness ==
    /\ "player_wrap_system" \notin ran
    /\ running
    /\ player # <<>>
    /\ 2 * player[1].x > W * P
    /\ Wrap(player[1]) # player[1]

\* C12 as the specification states it: in scenario S2 (player at (0,60) with
\* vy = -100, an enemy at (0,25), frames of 1/60 s, no key) that enemy is
\* destroyed and the score is 100 after exactly one frame.
C12_S2StompAfterOneFrame ==
    scenario = "S2" /\ frame = 2 /\ ran = {} =>
        /\ \A i \in 1..Len(enemies) : enemies[i].id # 1
        /\ score = STOMP_SCORE

\* C12, amended: in scenario S2 the boxes do not yet overlap in the first
\* frame (the player's centre is still more than 30 above the enemy's), so
\* after exactly one frame the enemy is alive, the player is alive and the
\* score is 0.
C12_S2NoContactInFirstFrame ==
    scenario = "S2" /\ frame = 2 /\ ran = {} =>
        /\ Len(enemies) = 2
        /\ enemies[1].id = 1
        /\ Len(player) = 1
        /\ score = 0
        /\ despawnEnemies = {}
        /\ ~PlayerHitsEnemy(player[1], enemies[1])
        /\ player[1].y - enemies[1].y > (PLAYER_SIZE_Y * P) \div 2 + (ENEMY_SIZE_Y * P) \div 2

\* Scenario S2 after its first frame, gravity applied before integration:
\* vy = -100 - 500/60 and y = 60 + vy/60, about 58.19.
C12_Witness ==
    /\ scenario = "S2"
    /\ frame = 2
    /\ ran = {}
    /\ running
    /\ player # <<>>
    /\ player[1].vy = (-100) * U + GRAVITY_FORCE
    /\ player[1].y = 60 * P + (-100) * U + GRAVITY_FORCE

\* C14 as the specification states it, for the frames the program runs
\* with no enemy (scenario S1: the player in the air, no enemy): the
\* simulation keeps running, and at every frame end from 2 s on the player
\* rests on the ground with vy = 0.
C14_S1KeepsRunning ==
    frame >= 2 /\ frameStart = <<>> /\ player # <<>> =>
        /\ running
        /\ ~exit
        /\ (frame > 2 * TicksPerSecond /\ ran = {} =>
               /\ player[1].y = top_y + PlayerHalfY
               /\ player[1].vy = 0)

\* C14, amended: a frame that begins with no enemy is the last one.  Its end
\* check posts "You Win!" and requests termination, and the run stops when
\* the frame ends, wherever the player then is.
C14_NoEnemyEndsRun ==
    /\ [](frame >= 2 /\ frameStart = <<>> /\ "check_end_game_system" \in ran =>
             exit /\ winBanners = 1 /\ gameOverBanners = 0)
    /\ [](frame >= 2 /\ frameStart = <<>> => enemies = <<>> /\ player # <<>>)
    /\ [][running /\ frame >= 2 /\ frameStart = <<>> /\ frame' = frame + 1 =>
             ~running']_vars

\* The run has stopped after a frame that began with no enemy, and the
\* player is still in the air.
C14_Witness ==
    /\ frame = 3
    /\ ~running
    /\ frameStart = <<>>
    /\ winBanners = 1
    /\ player # <<>>
    /\ player[1].y > top_y + PlayerHalfY
    /\ player[1].vy # 0

\* C13: an end condition created by the Player-Enemy stage of frame N is
\* acted on by the end check of frame N+1.  The despawn commands of frame N
\* take effect when frame N ends, and frame N+1 is run; its end check posts
\* "You Win!" and requests termination if the last enemy was stomped, and
\* posts "Game Over" and requests termination if the player was removed
\* while an enemy remains; once termination is requested the frame in
\* progress is the last one.
C13_EndActedOnNextFrame ==
    /\ [][FrameEnd /\ ~exit /\ frame' = frame + 1 =>
             /\ enemies' = SelectSeq(enemies, LAMBDA e : e.id \notin despawnEnemies)
             /\ (despawnPlayer => player' = <<>>)
             /\ (~despawnPlayer => player' = player)
             /\ running']_vars
    /\ [][Runs("check_end_game_system") /\ frame >= 2 =>
             /\ (frameStart = <<>> =>
                    /\ exit'
                    /\ winBanners' = winBanners + 1
                    /\ gameOverBanners' = gameOverBanners)
             /\ (frameStart # <<>> /\ player = <<>> =>
                    /\ exit'
                    /\ gameOverBanners' = gameOverBanners + 1
                    /\ winBanners' = winBanners)]_vars
    /\ [](exit /\ ran = {} => ~running)
    /\ [](~running => ran = {} /\ exit)

\* The player was side-hit in frame 1 with an enemy remaining: frame 2 ran
\* without a player, its end check posted a second "Game Over" after the one
\* of the Player-Enemy stage, and the run stopped at the end of frame 2.
C13_Witness ==
    /\ frame = 3
    /\ ~running
    /\ player = <<>>
    /\ enemies # <<>>
    /\ gameOverBanners >= 2
    /\ winBanners = 0

\* C16: the input stage sets the player's vy to the jump velocity exactly
\* when Space or Key2 was just pressed in this frame and the player's y is
\* at most top_y + PLAYER_SIZE.y/2 at that moment; in every other case (key
\* held, player airborne, player on top of an obstacle) it leaves vy as it
\* was.
C16_JumpOnlyFromGround ==
    [][Runs("player_input_system") =>
          /\ Len(player') = Len(player)
          /\ \A i \in 1..Len(player) :
                IF /\ ("Space" \in keyboard.just \/ "Key2" \in keyboard.just)
                   /\ 2 * player[i].y <= GROUND_HEIGHT * P + PLAYER_SIZE_Y * P
                THEN player'[i].vy = PLAYER_JUMP_VELOCITY * U
                ELSE player'[i].vy = player[i].vy]_vars

\* A second press of Space refused in the air: the player jumped in the
\* first frame of the startup "Jump", rose for half a second, and the input
\* stage of the second frame, with Space just pressed again, has left the
\* vy that gravity had reduced.
C16_Witness ==
    /\ scenario = "Jump"
    /\ frame = 2
    /\ "player_input_system" \in ran
    /\ "Space" \in keyboard.just
    /\ player # <<>>
    /\ player[1].y > top_y + PlayerHalfY
    /\ player[1].vy = PLAYER_JUMP_VELOCITY * U + GRAVITY_FORCE * 30

\* The number of obstacles whose box the box of enemy e strictly overlaps.
OverlapCount(e) ==
    Cardinality({j \in 1..Len(obstacles) :
        /\ 2 * Abs(e.x - obstacles[j].x) < (ENEMY_SIZE_X + OBSTACLE_SIZE_X) * P
        /\ 2 * Abs(e.y - obstacles[j].y) < (ENEMY_SIZE_Y + OBSTACLE_SIZE_Y) * P})

\* C17: the Enemy-Obstacle stage negates an enemy's vx once for each obstacle
\* its box strictly overlaps: with k such obstacles the vx after the stage
\* is (-1)^k times the vx before it, and the stage does not move the enemy.
\* In scenario S4 (enemy at (100,25) with vx = +100, obstacle at (120,30))
\* that enemy ends the frame with vx = -100.
C17_OneNegationPerObstacle ==
    /\ [][Runs("enemy_obstacle_collision_system") =>
             /\ Len(enemies') = Len(enemies)
             /\ \A i \in 1..Len(enemies) :
                   /\ enemies'[i].vx = IF OverlapCount(enemies[i]) % 2 = 0
                                       THEN enemies[i].vx
                                       ELSE -enemies[i].vx
                   /\ enemies'[i].x = enemies[i].x
                   /\ enemies'[i].y = enemies[i].y
                   /\ enemies'[i].vy = enemies[i].vy]_vars
    /\ [](scenario = "S4" /\ frame = 2 /\ ran = {} =>
             /\ Len(enemies) = 2
             /\ enemies[1].id = 1
             /\ enemies[1].vx = (-100) * U)

\* An enemy between two obstacles (the second enemy of the startup "S4", at
\* -300 between obstacles at -290 and -310): the stage has found two
\* overlaps and the enemy keeps its vx of -50.
C17_Witness ==
    /\ scenario = "S4"
    /\ frame = 1
    /\ "enemy_obstacle_collision_system" \in ran
    /\ Len(enemies) = 2
    /\ eoOverlaps[enemies[2].id] = 2
    /\ OverlapCount(enemies[2]) = 2
    /\ enemies[2].vx = (-50) * U

\* C18: for every enemy, from spawn until it is destroyed, vx is never zero
\* and |vx| stays the speed drawn at spawn, which lies between 50 and 150;
\* only the sign of vx changes.
C18_EnemySpeedConstant ==
    /\ [][\A i \in 1..Len(enemies') :
             \E j \in 1..Len(enemies) :
                /\ enemies[j].id = enemies'[i].id
                /\ Abs(enemies'[i].vx) = Abs(enemies[j].vx)]_vars
    /\ [](\A i \in 1..Len(enemies) :
             /\ enemies[i].vx # 0
             /\ Abs(enemies[i].vx) >= ENEMY_SPEED_MIN * U
             /\ Abs(enemies[i].vx) <= ENEMY_SPEED_MAX * U)

\* The enemy spawned at x = 60 with vx = +100 ran into the obstacle at 120 in
\* the first frame, was reversed there, and has moved back in the second
\* frame at the same speed.
C18_Witness ==
    /\ frame = 2
    /\ "movement_system" \in ran
    /\ \E i \in 1..Len(enemies) :
          /\ enemies[i].id = 1
          /\ enemies[i].vx = (-100) * U
          /\ enemies[i].x = 60 * P
          /\ \E j \in 1..Len(frameStart) :
                frameStart[j].id = 1 /\ frameStart[j].x = 110 * P

\* The ids of the enemies alive.
EnemyIds == {enemies[i].id : i \in 1..Len(enemies)}

\* The number of enemies spawned at startup.
Spawned == Cardinality(DOMAIN eoOverlaps)

\* The number of enemies stomped so far: those removed and those marked for
\* removal at the end of the frame in progress.
Stomped == (Spawned - Len(enemies)) + Cardinality(despawnEnemies)

\* C19: the score is 100 times the number of enemies stomped so far; each
\* enemy is credited at most once, for an enemy stomped in a frame is gone
\* when that frame ends and never comes back; so the score never exceeds 100
\* times the number of enemies spawned.
C19_ScoreCountsStomps ==
    /\ [](/\ score = 100 * Stomped
          /\ despawnEnemies \subseteq EnemyIds
          /\ Cardinality(EnemyIds) = Len(enemies)
          /\ score <= 100 * Spawned)
    /\ [][EnemyIds' \subseteq EnemyIds]_vars
    /\ [][ran = Systems /\ ran' = {} => EnemyIds' = EnemyIds \ despawnEnemies]_vars
    /\ [][Runs("enemy_collision_system") =>
             score' - score = 100 * Cardinality(despawnEnemies' \ despawnEnemies)]_vars

\* One enemy was stomped in the first frame and is gone; the other has been
\* through the Player-Enemy stage of the second frame, and the score is
\* still 100.
C19_Witness ==
    /\ frame = 2
    /\ "enemy_collision_system" \in ran
    /\ score = 100
    /\ Len(enemies) = 1
    /\ Spawned = 2
    /\ despawnEnemies = {}

\* C20: no run posts both a "You Win!" banner and a "Game Over" banner.  An
\* enemy that side-hits the player survives the frame, so a player marked
\* for destruction or destroyed always has an enemy left, and a "Game Over"
\* banner is only ever posted for such a player.
C20_NeverBothBanners ==
    /\ ~(winBanners > 0 /\ gameOverBanners > 0)
    /\ (despawnPlayer => EnemyIds \ despawnEnemies # {})
    /\ (player = <<>> => enemies # <<>>)
    /\ (gameOverBanners > 0 => despawnPlayer \/ player = <<>>)
    /\ (winBanners > 0 => enemies = <<>> /\ player # <<>>)

\* Two enemies have hit the player from the side in the first frame and both
\* survive; the end check of the second frame, with the player gone, has
\* added its "Game Over" to theirs and no "You Win!" has been posted.
C20_Witness ==
    /\ frame = 2
    /\ running
    /\ "check_end_game_system" \in ran
    /\ player = <<>>
    /\ Len(enemies) = 2
    /\ gameOverBanners = 3
    /\ winBanners = 0
    /\ exit

====
